---- MODULE Spec2Model ----
(***************************************************************************)
(* A model of playlist-dl.py: the Entry Store (Playlist.populate and       *)
(* get_entry), the tag reader m4a_atoms, split_artist, the reconciler      *)
(* update_m4a_meta, the three stages do_dl_listing, do_dl_media and        *)
(* do_track_meta, and main's configuration pass and sync loop.             *)
(*                                                                         *)
(* Strings are sequences of one-character strings, so that split, strip    *)
(* and the formatting of track numbers are computed as Python computes     *)
(* them.  Python's None is the empty option <<>>; a value v that is        *)
(* present is the option <<v>>.                                            *)
(*                                                                         *)
(* Specifications:                                                         *)
(*   Spec        one run of main over two playlists                        *)
(*   SpecTags    several runs over one playlist with one media file        *)
(*   SpecRace    two instances started on the same folder                  *)
(*   SpecNames   one run on a folder that holds many listing files         *)
(*   SpecE2E     several runs on the playlist "Deep House" with two files  *)
(*   SpecConfig  one run on every small configuration file                 *)
(*   SpecStore   populate called repeatedly on one Playlist object         *)
(*   SpecMatch   the file name pattern of do_track_meta on one file        *)
(*   SpecSplit   split_artist and the change set on one title              *)
(***************************************************************************)
EXTENDS Naturals, Integers, Sequences, FiniteSets, TLC

(***************************************************************************)
(* Bounds of the model.                                                    *)
(***************************************************************************)
\* longest remote listing the listing service returns
MaxListLen == 2
\* how many times populate is called on one Playlist object
MaxCalls == 2
\* most playlist sections of a configuration file, where these are varied
MaxSections == 2
\* longest title given to split_artist on its own
MaxTitleLen == 4
\* how many times the program is started in the runs-of-one-playlist model
MaxRuns == 2

(***************************************************************************)
(* Option values and string helpers.                                       *)
(***************************************************************************)
None == << >>

Some(v) == << v >>

Rep(c, n) == [k \in 1..n |-> c]

\* s[a:b] of Python, with 0 <= a <= b <= len(s)
Slice(s, a, b) == SubSeq(s, a + 1, b)

\* s[i:i+len(sep)] == sep, for a 0-based index i
MatchAt(s, sep, i) ==
    /\ i + Len(sep) <= Len(s)
    /\ Slice(s, i, i + Len(sep)) = sep

\* str.find(sep): the least 0-based index where sep occurs in s, or -1
RECURSIVE find_from(_, _, _)
find_from(s, sep, i) ==
    IF i + Len(sep) > Len(s) THEN -1
    ELSE IF MatchAt(s, sep, i) THEN i
    ELSE find_from(s, sep, i + 1)

Find(s, sep) == find_from(s, sep, 0)

\* str.split(sep, maxsplit) for a non-empty separator
RECURSIVE split(_, _, _)
split(s, sep, maxsplit) ==
    LET i == Find(s, sep)
    IN  IF maxsplit = 0 \/ i = -1 THEN << s >>
        ELSE << Slice(s, 0, i) >>
             \o split(Slice(s, i + Len(sep), Len(s)), sep, maxsplit - 1)

Whitespace == {" ", "\t", "\n", "\r"}

\* str.strip()
RECURSIVE strip(_)
strip(s) ==
    IF s = << >> THEN s
    ELSE IF s[1] \in Whitespace THEN strip(Tail(s))
    ELSE IF s[Len(s)] \in Whitespace THEN strip(Slice(s, 0, Len(s) - 1))
    ELSE s

\* str.splitlines() for text whose line ends are "\n"
RECURSIVE splitlines(_)
splitlines(s) ==
    LET i == Find(s, << "\n" >>)
    IN  IF s = << >> THEN << >>
        ELSE IF i = -1 THEN << s >>
        ELSE << Slice(s, 0, i) >> \o splitlines(Slice(s, i + 1, Len(s)))

Digit == << "0", "1", "2", "3", "4", "5", "6", "7", "8", "9" >>

\* "%d" % n for n >= 0
RECURSIVE FormatD(_)
FormatD(n) ==
    IF n < 10 THEN << Digit[n + 1] >>
    ELSE FormatD(n \div 10) \o << Digit[(n % 10) + 1] >>

(***************************************************************************)
(* The Entry Store: Playlist.entries, a dict from id to entry.  An entry   *)
(* is the raw record of the listing with the key "pos" added.              *)
(***************************************************************************)
Put(d, k, v) == [x \in (DOMAIN d) \cup {k} |-> IF x = k THEN v ELSE d[x]]

EmptyDict == [x \in {} |-> None]

\* Playlist.populate, from the i-th raw entry on (i is 1-based here, so
\* enumerate's index is i - 1 and the position it stores is (i - 1) + 1)
RECURSIVE populate_from(_, _, _)
populate_from(entries, raw, i) ==
    IF i > Len(raw) THEN entries
    ELSE populate_from(
             Put(entries, raw[i].id,
                 [id |-> raw[i].id, title |-> raw[i].title, pos |-> (i - 1) + 1]),
             raw, i + 1)

\* a faulty populate: the store is emptied before the entries are put in
populate_replacing(entries, raw) == populate_from(EmptyDict, raw, 1)

\* a faulty populate: the first entry of the listing is left out
populate_skip_first(entries, raw) == populate_from(entries, raw, 2)

populate(entries, raw) == populate_from(entries, raw, 1)

\* Playlist.get_entry: the entry as an option, None when the id is unknown
get_entry(entries, entry_id) ==
    IF entry_id \in DOMAIN entries THEN Some(entries[entry_id]) ELSE None

\* Playlist.__len__
len(entries) == Cardinality(DOMAIN entries)

(***************************************************************************)
(* Tag atoms.  A media file stores its atoms as the tag editor prints      *)
(* them: a dict from atom name to the printed value.  The copyright sign   *)
(* that starts four of the names ('\xc2\xa9') is written "(c)".            *)
(***************************************************************************)
K_gen == << "(c)", "g", "e", "n" >>

K_alb == << "(c)", "a", "l", "b" >>

K_nam == << "(c)", "n", "a", "m" >>

K_ART == << "(c)", "A", "R", "T" >>

K_trkn == << "t", "r", "k", "n" >>

AtomKeys == << K_gen, K_alb, K_nam, K_ART, K_trkn >>

TextKeys == {K_gen, K_alb, K_nam, K_ART}

\* The tag editor's listing of a file (AtomicParsley FILE -t): one line
\*   Atom "NAME" contains: VALUE
\* per atom.
AP_line(key, value) ==
    << "A", "t", "o", "m", " ", "\"" >> \o key
        \o << "\"", " ", "c", "o", "n", "t", "a", "i", "n", "s", ":", " " >>
        \o value \o << "\n" >>

RECURSIVE AP_print_from(_, _)
AP_print_from(atoms, k) ==
    IF k > Len(AtomKeys) THEN << >>
    ELSE (IF AtomKeys[k] \in DOMAIN atoms
          THEN AP_line(AtomKeys[k], atoms[AtomKeys[k]]) ELSE << >>)
         \o AP_print_from(atoms, k + 1)

AP_print(atoms) == AP_print_from(atoms, 1)

\* m4a_atoms.parse_line: the name without its quotes, and the value
parse_line(l) ==
    LET toks == split(l, << " " >>, 3)
    IN  << Slice(toks[2], 1, Len(toks[2]) - 1), toks[4] >>

RECURSIVE dict_of(_, _)
dict_of(pairs, k) ==
    IF k = 0 THEN EmptyDict
    ELSE Put(dict_of(pairs, k - 1), pairs[k][1], pairs[k][2])

\* a faulty m4a_atoms: the track number is left as the tag editor prints it
m4a_atoms_as_printed(stdout) ==
    LET atoms == splitlines(stdout)
        pairs == [k \in 1..Len(atoms) |-> parse_line(atoms[k])]
    IN  dict_of(pairs, Len(pairs))

\* m4a_atoms, after the tag editor has exited with code 0 and printed stdout
m4a_atoms(stdout) ==
    LET atoms == splitlines(stdout)
        pairs == [k \in 1..Len(atoms) |-> parse_line(atoms[k])]
        a_dict == dict_of(pairs, Len(pairs))
        trackno == IF K_trkn \in DOMAIN a_dict THEN a_dict[K_trkn] ELSE << >>
        nums == split(trackno, << " ", "o", "f", " " >>, 1)
    IN  IF trackno # << >> /\ Len(nums) > 1
        THEN Put(a_dict, K_trkn, nums[1] \o << "/" >> \o nums[2])
        ELSE a_dict

(***************************************************************************)
(* split_artist and the change set of update_m4a_meta.                     *)
(***************************************************************************)
\* a faulty split_artist: a bare "-" is not tried as a separator
split_artist_spaced_only(s) ==
    LET try1 == split(s, << " ", "-", " " >>, 1)
    IN  IF Len(try1) > 1
        THEN << Some(strip(try1[1])), Some(strip(try1[2])), FALSE >>
        ELSE << None, Some(s), TRUE >>

\* a faulty split_artist: the two parts are returned as they were cut
split_artist_unstripped(s) ==
    LET try1 == split(s, << " ", "-", " " >>, 1)
        try2 == split(s, << "-" >>, 1)
    IN  IF Len(try1) > 1 THEN << Some(try1[1]), Some(try1[2]), FALSE >>
        ELSE IF Len(try2) > 1 THEN << Some(try2[1]), Some(try2[2]), FALSE >>
        ELSE << None, Some(s), TRUE >>

\* split_artist: << artist, song, warned >>, where artist and song are
\* options and warned says whether the warning of line 167 was printed
split_artist(s) ==
    LET try1 == split(s, << " ", "-", " " >>, 1)
        try2 == split(s, << "-" >>, 1)
    IN  IF Len(try1) > 1
        THEN << Some(strip(try1[1])), Some(strip(try1[2])), FALSE >>
        ELSE IF Len(try2) > 1
        THEN << Some(strip(try2[1])), Some(strip(try2[2])), FALSE >>
        ELSE << None, Some(s), TRUE >>

\* trackno = "%d/%d" % (meta["pos"], len(pl))
trackno_of(entries, meta) ==
    FormatD(meta.pos) \o << "/" >> \o FormatD(len(entries))

\* a faulty update_command: the genre is written whether or not it is set
update_command_genre_always(pl, entries, meta, current_atoms) ==
    LET trackno == trackno_of(entries, meta)
        artist == split_artist(meta.title)[1]
        song == split_artist(meta.title)[2]
        cur_trkn == IF K_trkn \in DOMAIN current_atoms
                    THEN current_atoms[K_trkn] ELSE << >>
    IN  (IF pl.genre # None
         THEN << << "--genre", pl.genre[1] >> >> ELSE << >>)
        \o (IF K_alb \notin DOMAIN current_atoms /\ pl.name # None
            THEN << << "--album", pl.name[1] >> >> ELSE << >>)
        \o (IF K_nam \notin DOMAIN current_atoms /\ song # None
            THEN << << "--title", song[1] >> >> ELSE << >>)
        \o (IF K_ART \notin DOMAIN current_atoms /\ artist # None
            THEN << << "--artist", artist[1] >> >> ELSE << >>)
        \o (IF trackno # cur_trkn
            THEN << << "--tracknum", trackno >> >> ELSE << >>)

\* a faulty update_command: the track number is treated like the other
\* fields, written only when the file has none
update_command_track_once(pl, entries, meta, current_atoms) ==
    LET trackno == trackno_of(entries, meta)
        artist == split_artist(meta.title)[1]
        song == split_artist(meta.title)[2]
    IN  (IF K_gen \notin DOMAIN current_atoms /\ pl.genre # None
         THEN << << "--genre", pl.genre[1] >> >> ELSE << >>)
        \o (IF K_alb \notin DOMAIN current_atoms /\ pl.name # None
            THEN << << "--album", pl.name[1] >> >> ELSE << >>)
        \o (IF K_nam \notin DOMAIN current_atoms /\ song # None
            THEN << << "--title", song[1] >> >> ELSE << >>)
        \o (IF K_ART \notin DOMAIN current_atoms /\ artist # None
            THEN << << "--artist", artist[1] >> >> ELSE << >>)
        \o (IF K_trkn \notin DOMAIN current_atoms
            THEN << << "--tracknum", trackno >> >> ELSE << >>)

\* the update_command list of update_m4a_meta as a sequence of
\* << option, value >> pairs, in the order the code appends them
update_command(pl, entries, meta, current_atoms) ==
    LET trackno == trackno_of(entries, meta)
        artist == split_artist(meta.title)[1]
        song == split_artist(meta.title)[2]
        cur_trkn == IF K_trkn \in DOMAIN current_atoms
                    THEN current_atoms[K_trkn] ELSE << >>
    IN  (IF K_gen \notin DOMAIN current_atoms /\ pl.genre # None
         THEN << << "--genre", pl.genre[1] >> >> ELSE << >>)
        \o (IF K_alb \notin DOMAIN current_atoms /\ pl.name # None
            THEN << << "--album", pl.name[1] >> >> ELSE << >>)
        \o (IF K_nam \notin DOMAIN current_atoms /\ song # None
            THEN << << "--title", song[1] >> >> ELSE << >>)
        \o (IF K_ART \notin DOMAIN current_atoms /\ artist # None
            THEN << << "--artist", artist[1] >> >> ELSE << >>)
        \o (IF trackno # cur_trkn
            THEN << << "--tracknum", trackno >> >> ELSE << >>)

(***************************************************************************)
(* The tag editor writing a copy of a file with a change set applied       *)
(* (AtomicParsley FILE --output TEMP options): every named field is set    *)
(* to the given value; a track number given as "X/Y" is stored, and        *)
(* printed, as "X of Y".                                                   *)
(***************************************************************************)
FlagKey(flag) ==
    CASE flag = "--genre" -> K_gen
      [] flag = "--album" -> K_alb
      [] flag = "--title" -> K_nam
      [] flag = "--artist" -> K_ART
      [] flag = "--tracknum" -> K_trkn

AP_value(flag, value) ==
    LET nums == split(value, << "/" >>, 1)
    IN  IF flag = "--tracknum" /\ Len(nums) > 1
        THEN nums[1] \o << " ", "o", "f", " " >> \o nums[2]
        ELSE value

RECURSIVE AP_write(_, _)
AP_write(atoms, cmd) ==
    IF cmd = << >> THEN atoms
    ELSE AP_write(Put(atoms, FlagKey(cmd[1][1]), AP_value(cmd[1][1], cmd[1][2])),
                  Tail(cmd))

(***************************************************************************)
(* Program constants.                                                      *)
(***************************************************************************)
\* the last listing number: "if attempt > 999"
LastListingNum == 999
\* the length of an identifier in a file name: "{11}"
IdLen == 11

DEFAULT_ROOT == << "." >>

DotM4a == << ".", "m", "4", "a" >>

Lower == {"a", "b", "c", "d", "e", "f", "g", "h", "i", "j", "k", "l", "m",
          "n", "o", "p", "q", "r", "s", "t", "u", "v", "w", "x", "y", "z"}

Upper == {"A", "B", "C", "D", "E", "F", "G", "H", "I", "J", "K", "L", "M",
          "N", "O", "P", "Q", "R", "S", "T", "U", "V", "W", "X", "Y", "Z"}

\* the character class [-a-zA-Z0-9_]
IdChars == Lower \cup Upper \cup {Digit[k] : k \in 1..10} \cup {"-", "_"}

(***************************************************************************)
(* Paths and file names.                                                   *)
(***************************************************************************)
\* os.path.join(a, b) for a relative b and an a that does not end in "/"
path_join(a, b) == a \o << "/" >> \o b

\* a faulty format: the number is not padded with zeros
Format03d_unpadded(n) == FormatD(n)

\* "%03d" % n
Format03d(n) ==
    LET s == FormatD(n)
    IN  IF Len(s) < 3 THEN Rep("0", 3 - Len(s)) \o s ELSE s

\* do_dl_listing._listing_file: it ignores its argument and formats attempt
_listing_file(dirpath, attempt_now) ==
    path_join(dirpath,
              << "l", "i", "s", "t", "i", "n", "g", "." >> \o Format03d(attempt_now)
                  \o << ".", "t", "x", "t" >>)

EndsWith(s, suffix) ==
    Len(s) >= Len(suffix) /\ MatchAt(s, suffix, Len(s) - Len(suffix))

\* glob.glob(os.path.join(dirpath, "*.m4a")) over the paths that exist
glob_m4a(paths, dirpath) ==
    {p \in paths :
        /\ Len(p) > Len(dirpath) + 1
        /\ MatchAt(p, dirpath \o << "/" >>, 0)
        /\ \A k \in (Len(dirpath) + 2)..Len(p) : p[k] # "/"
        /\ p[Len(dirpath) + 2] # "."
        /\ EndsWith(p, DotM4a)}

\* a faulty pattern: the class of identifier characters is [a-zA-Z0-9]
re_split_alnum(m4a) ==
    LET n == Len(m4a)
        at == n - (IdLen + 5)
    IN  IF /\ at >= 0
           /\ m4a[at + 1] = "-"
           /\ \A k \in 1..IdLen : m4a[at + 1 + k] \in IdChars \ {"-", "_"}
           /\ MatchAt(m4a, DotM4a, n - 4)
        THEN << Slice(m4a, 0, at), Slice(m4a, at + 1, at + 1 + IdLen), << >> >>
        ELSE << m4a >>

\* re.split("-([-a-zA-Z0-9_]{11})[.]m4a$", m4a): the pattern is anchored at
\* the end, so it matches at most once, IdLen + 5 characters before the end
re_split(m4a) ==
    LET n == Len(m4a)
        at == n - (IdLen + 5)
    IN  IF /\ at >= 0
           /\ m4a[at + 1] = "-"
           /\ \A k \in 1..IdLen : m4a[at + 1 + k] \in IdChars
           /\ MatchAt(m4a, DotM4a, n - 4)
        THEN << Slice(m4a, 0, at), Slice(m4a, at + 1, at + 1 + IdLen), << >> >>
        ELSE << m4a >>

\* a faulty test of the exit code: only a negative code counts as failure
returncode_failed_if_negative(returncode) == returncode < 0

\* "if popen.returncode != 0": the call is treated as failed
returncode_failed(returncode) == returncode # 0

\* a faulty open, without O_EXCL: it opens an existing file too
os_open_never_fails(exists) == FALSE

\* os.open(path, O_RDWR | O_CREAT | O_EXCL) fails when the path exists
os_open_fails(exists) == exists

\* a faulty bound: the last number is never handed out
ran_out_of_names_early(attempt_now) == attempt_now > LastListingNum - 1

\* the listing numbers are used up: "if attempt > 999"
ran_out_of_names(attempt_now) == attempt_now > LastListingNum

\* a faulty parse: output that is not a listing is read as one
json_loads_never_raises(parsable) == FALSE

\* json.loads raises on a line of the output that is not a JSON document
json_loads_raises(parsable) == ~parsable

\* a faulty write: nothing reaches the listing file
fo_write_nothing(data, stdout) == data

\* fo.write(stdout) on the file object of the listing file, which holds
\* data and is positioned at its end
fo_write(data, stdout) == data \o stdout

\* a faulty output path: the tag editor rewrites the media file in place
output_path_in_place(m4a, temp_name) == m4a

\* the path the tag editor is told to write: "--output", temp_name
output_path(m4a, temp_name) == temp_name

\* a faulty test: the tag editor is run to write even an empty change set
update_needed_always(cmd) == TRUE

\* "if update_command:": the list of options to write is not empty
update_needed(cmd) == cmd # << >>

\* a faulty do_track_meta: a file it cannot resolve is an error
on_miss_raise == "raise"

\* what do_track_meta does with a file it cannot resolve: "continue"
on_miss == "continue"

(***************************************************************************)
(* main's configuration pass (lines 311-351).  A section is the dict of    *)
(* its options; cfg is                                                     *)
(*   [readable, opt_root, main_root, list_config, sections].               *)
(***************************************************************************)
dict_get(d, key) == IF key \in DOMAIN d THEN Some(d[key]) ELSE None

\* opts.root after lines 316-320
opts_root(cfg) ==
    IF cfg.opt_root # None THEN cfg.opt_root[1]
    ELSE IF cfg.main_root # None THEN cfg.main_root[1]
    ELSE DEFAULT_ROOT

\* the pl dict of one section: the defaults, then the section's options
section_pl(cfg, section) ==
    [key \in {"name", "url", "genre", "root"} |->
        IF key \in DOMAIN section THEN Some(section[key])
        ELSE IF key = "root" THEN Some(opts_root(cfg)) ELSE None]

\* the checks of lines 328-340 on one section
section_valid(pl) ==
    /\ pl["name"] # None
    /\ pl["name"][1] # << >>
    /\ \A k \in 1..Len(pl["name"][1]) : pl["name"][1][k] \notin {"/", "NUL"}
    /\ \A mandatory \in {"url", "root", "genre"} : pl[mandatory] # None

\* a faulty loop over the sections: a bad section is passed over
RECURSIVE parse_sections_skipping(_, _)
parse_sections_skipping(cfg, k) ==
    IF k = 0 THEN [ok |-> TRUE, playlists |-> << >>]
    ELSE LET before == parse_sections_skipping(cfg, k - 1)
             pl == section_pl(cfg, cfg.sections[k])
         IN  IF ~section_valid(pl) THEN before
             ELSE [ok |-> TRUE,
                   playlists |-> Append(before.playlists,
                       [name |-> pl["name"], genre |-> pl["genre"],
                        url |-> pl["url"], root |-> pl["root"]])]

\* the playlists list of main, or "invalid" at the first bad section
RECURSIVE parse_sections(_, _)
parse_sections(cfg, k) ==
    IF k = 0 THEN [ok |-> TRUE, playlists |-> << >>]
    ELSE LET before == parse_sections(cfg, k - 1)
             pl == section_pl(cfg, cfg.sections[k])
         IN  IF ~before.ok \/ ~section_valid(pl)
             THEN [ok |-> FALSE, playlists |-> << >>]
             ELSE [ok |-> TRUE,
                   playlists |-> Append(before.playlists,
                       [name |-> pl["name"], genre |-> pl["genre"],
                        url |-> pl["url"], root |-> pl["root"]])]

\* a faulty loop body: the media are fetched before the listing
main_stages_media_first == << "media", "listing", "meta" >>

\* the stages of the sync loop, in the order of lines 354-356
main_stages == << "listing", "media", "meta" >>

(***************************************************************************)
(* The world outside the program: identifiers, titles, the listings the    *)
(* listing service returns for a url, and the files the media service      *)
(* may add to a folder.                                                    *)
(***************************************************************************)
ID_a == Rep("a", IdLen)

ID_b == Rep("b", IdLen)

ID_c == Rep("c", IdLen)

T_XS == << "X", " ", "-", " ", "S" >>

T_YT == << "Y", "-", "T" >>

T_N == << "N" >>

RawA1 == [id |-> ID_a, title |-> T_XS]

RawB == [id |-> ID_b, title |-> T_YT]

RawA2 == [id |-> ID_a, title |-> T_N]

U_main == << "u", "1" >>

U_tags == << "u", "2" >>

U_other == << "u", "3" >>

SeqsUpTo(S, n) == UNION {[1..m -> S] : m \in 0..n}

\* the playlist "Deep House" of two entries, once with identifiers as the
\* listing service gives them (IdLen characters) and once with the
\* one-character identifiers "a" and "b"
N_DH == << "D", "e", "e", "p", " ", "H", "o", "u", "s", "e" >>

T_XSong1 == << "X", " ", "-", " ", "S", "o", "n", "g", "1" >>

T_YSong2 == << "Y", "-", "S", "o", "n", "g", "2" >>

U_e2e == << "u", "4" >>

U_lit == << "u", "5" >>

E2E_ids(url) == IF url = U_lit THEN << << "a" >>, << "b" >> >> ELSE << ID_a, ID_b >>

E2E_listing(url) ==
    << [id |-> E2E_ids(url)[1], title |-> T_XSong1],
       [id |-> E2E_ids(url)[2], title |-> T_YSong2] >>

\* listings served for the url of the playlist whose tags are followed
\* over several runs: reorderings, a retitled entry, a repeated entry
TagListings ==
    { << RawA1 >>, << RawB, RawA1 >>, << RawA2 >>, << RawA1, RawA2 >>, << RawB >> }

ListingsOf(url) ==
    IF url = U_main THEN SeqsUpTo({RawA1, RawB, RawA2}, MaxListLen)
    ELSE IF url = U_tags THEN TagListings
    ELSE IF url \in {U_e2e, U_lit} THEN {E2E_listing(url)}
    ELSE SeqsUpTo({RawB}, MaxListLen)

\* the name the media service gives the file of an entry
media_name(id) == << "s", "-" >> \o id \o DotM4a

\* the files the media service may add: one per entry of the playlist it
\* has not fetched before
NewFiles(dirpath, url) ==
    {path_join(dirpath, media_name(id)) :
        id \in IF url = U_main THEN {ID_b}
               ELSE IF url = U_tags THEN {ID_a}
               ELSE IF url \in {U_e2e, U_lit} THEN {}
               ELSE {ID_b}}

ReturnCodes == {0, 1}

\* a file as mkstemp leaves it, and a file an interrupted write leaves
EmptyFile == [atoms |-> EmptyDict, audio |-> << >>]

PartialFile == [atoms |-> EmptyDict, audio |-> << "p", "a", "r", "t" >>]

\* the n-th name mkstemp(suffix="playlist-dl") hands out
temp_path(n) ==
    << "/", "t", "m", "p", "/", "t", "m", "p" >> \o FormatD(n)
        \o << "p", "l", "a", "y", "l", "i", "s", "t", "-", "d", "l" >>

Remove(d, k) == [x \in (DOMAIN d) \ {k} |-> d[x]]

(***************************************************************************)
(* State.                                                                  *)
(*   config    the ini file and the command line, fixed over a behaviour   *)
(*   runsLeft  how many more times each instance will be started           *)
(*   dirs      the directories that exist                                  *)
(*   listings  the listing.NNN.txt files: path -> [data, by]               *)
(*   files     the other files (media, temporaries): path -> [atoms,audio] *)
(*   ntmp      how many temporary names mkstemp has handed out             *)
(*   synced    per media file, the inputs of its last completed reconcile  *)
(*   proc      per running instance of the program, its local state; in    *)
(*             the specifications of one function on its own (SpecStore,   *)
(*             SpecMatch, SpecSplit), the object or the locals of the call *)
(***************************************************************************)
VARIABLES config, runsLeft, dirs, listings, files, ntmp, synced, proc

vars == << config, runsLeft, dirs, listings, files, ntmp, synced, proc >>

NoLast ==
    [kind |-> "none", path |-> << >>, before |-> EmptyFile, cmd |-> << >>,
     prev |-> None, pl |-> None, meta |-> None, n |-> 0, pending |-> {},
     temp |-> << >>, reads |-> 0, writes |-> 0]

NoProgress ==
    [listing |-> 0, media |-> 0, meta |-> 0,
     listing_ok |-> 0, media_ok |-> 0, meta_ok |-> 0,
     list_calls |-> 0, dl_calls |-> 0, fail |-> "none",
     fetched |-> None, before |-> {}, globbed |-> {}, routed |-> {}]

\* an instance at the start of main
FreshProc ==
    [pc |-> "config", exitcode |-> None, playlists |-> << >>, idx |-> 0,
     entries |-> << >>, attempt |-> 0, fd |-> None, m4as |-> {},
     progress |-> << >>, tagcalls |-> [read |-> 0, write |-> 0],
     last |-> NoLast]

Procs == DOMAIN proc

(***************************************************************************)
(* Helpers of the actions.                                                 *)
(***************************************************************************)
\* the playlist the sync loop of instance i is at, and its folder
cur_pl(i) == proc[i].playlists[proc[i].idx]

dirpath_of(pl) == path_join(pl.root[1], pl.name[1])

\* an uncaught exception ends the process with exit status 1
Raised(p, why) ==
    [p EXCEPT !.pc = "exit", !.exitcode = Some(1), !.fd = None,
              !.progress[p.idx].fail = why]

\* a stage of the loop body returned: the next statement of lines 353-358
AfterStage(p, stage) ==
    LET k == CHOOSE j \in 1..Len(main_stages) : main_stages[j] = stage
    IN  IF k < Len(main_stages) THEN [p EXCEPT !.pc = main_stages[k + 1]]
        ELSE IF p.idx < Len(p.playlists)
        THEN [p EXCEPT !.idx = p.idx + 1, !.pc = main_stages[1]]
        ELSE [p EXCEPT !.pc = "exit", !.exitcode = Some(0)]

InDir(path, dirpath) ==
    Len(path) > Len(dirpath) /\ MatchAt(path, dirpath \o << "/" >>, 0)

(***************************************************************************)
(* main, lines 309-351: read the configuration, build the playlists.       *)
(***************************************************************************)
MainConfig(i) ==
    /\ proc[i].pc = "config"
    /\ LET parsed == parse_sections(config, Len(config.sections))
           n == Len(parsed.playlists)
       IN  proc' = [proc EXCEPT ![i] =
               IF ~config.readable \/ ~parsed.ok
               THEN [@ EXCEPT !.pc = "exit", !.exitcode = Some(1)]
               ELSE IF config.list_config \/ n = 0
               THEN [@ EXCEPT !.pc = "exit", !.exitcode = Some(0),
                              !.playlists = parsed.playlists]
               ELSE [@ EXCEPT !.pc = main_stages[1], !.idx = 1,
                              !.playlists = parsed.playlists,
                              !.entries = [k \in 1..n |-> EmptyDict],
                              !.progress = [k \in 1..n |-> NoProgress]]]
    /\ UNCHANGED << config, runsLeft, dirs, listings, files, ntmp, synced >>

(***************************************************************************)
(* do_dl_listing, lines 242-281, in four steps: the start, one test of the *)
(* while loop, the exclusive open, and the fetch with what follows it.     *)
(***************************************************************************)
ListingBegin(i) ==
    /\ proc[i].pc = "listing"
    /\ LET dirpath == dirpath_of(cur_pl(i))
       IN  /\ dirs' = dirs \cup {dirpath}
           /\ proc' = [proc EXCEPT ![i] =
                  [@ EXCEPT !.pc = "probe", !.attempt = 0,
                            !.progress[proc[i].idx].listing = @ + 1,
                            !.progress[proc[i].idx].before =
                                {q \in DOMAIN listings : InDir(q, dirpath)}]]
    /\ UNCHANGED << config, runsLeft, listings, files, ntmp, synced >>

ListingProbe(i) ==
    /\ proc[i].pc = "probe"
    /\ LET dirpath == dirpath_of(cur_pl(i))
           p == proc[i]
       IN  proc' = [proc EXCEPT ![i] =
               IF _listing_file(dirpath, p.attempt) \in DOMAIN listings
               THEN IF ran_out_of_names(p.attempt + 1)
                    THEN Raised([p EXCEPT !.attempt = p.attempt + 1], "names")
                    ELSE [p EXCEPT !.attempt = p.attempt + 1]
               ELSE [p EXCEPT !.pc = "open"]]
    /\ UNCHANGED << config, runsLeft, dirs, listings, files, ntmp, synced >>

ListingOpen(i) ==
    /\ proc[i].pc = "open"
    /\ LET path == _listing_file(dirpath_of(cur_pl(i)), proc[i].attempt)
           exists == path \in DOMAIN listings
       IN  IF os_open_fails(exists)
           THEN /\ proc' = [proc EXCEPT ![i] = Raised(@, "open")]
                /\ UNCHANGED listings
           ELSE /\ listings' =
                       IF exists THEN listings
                       ELSE Put(listings, path,
                                [data |-> << >>, by |-> << i, runsLeft[i] >>,
                                 writers |-> {}])
                /\ proc' = [proc EXCEPT ![i] =
                       [@ EXCEPT !.pc = "fetch", !.fd = Some(path)]]
    /\ UNCHANGED << config, runsLeft, dirs, files, ntmp, synced >>

ListingFetch(i) ==
    /\ proc[i].pc = "fetch"
    /\ \E returncode \in ReturnCodes :
       \E parsable \in BOOLEAN :
       \E stdout \in ListingsOf(cur_pl(i).url[1]) :
           LET p == [proc[i] EXCEPT !.progress[proc[i].idx].list_calls = @ + 1]
               path == p.fd[1]
           IN  IF returncode_failed(returncode)
               THEN /\ proc' = [proc EXCEPT ![i] = Raised(p, "listing")]
                    /\ UNCHANGED listings
               ELSE IF json_loads_raises(parsable)
               THEN /\ proc' = [proc EXCEPT ![i] = Raised(p, "parse")]
                    /\ UNCHANGED listings
               ELSE /\ listings' = [listings EXCEPT ![path] =
                           [@ EXCEPT !.data = fo_write(@, stdout),
                                     !.writers = @ \cup {<< i, runsLeft[i] >>}]]
                    /\ proc' = [proc EXCEPT ![i] =
                           AfterStage(
                               [p EXCEPT !.entries[proc[i].idx] = populate(@, stdout),
                                         !.fd = None,
                                         !.progress[proc[i].idx].fetched = Some(stdout),
                                         !.progress[proc[i].idx].listing_ok = @ + 1,
                                         !.progress[proc[i].idx].fail =
                                             IF returncode # 0 THEN "listing"
                                             ELSE IF ~parsable THEN "parse"
                                             ELSE @],
                               "listing")]
    /\ UNCHANGED << config, runsLeft, dirs, files, ntmp, synced >>

(***************************************************************************)
(* do_dl_media, lines 283-294.  The media service adds files to the folder *)
(* for entries it has not fetched before, whatever its exit code.          *)
(***************************************************************************)
DoDlMedia(i) ==
    /\ proc[i].pc = "media"
    /\ LET dirpath == dirpath_of(cur_pl(i))
           p == [proc[i] EXCEPT !.progress[proc[i].idx].media = @ + 1,
                                !.progress[proc[i].idx].dl_calls = @ + 1]
       IN  /\ dirs' = dirs \cup {dirpath}
           /\ \E returncode \in ReturnCodes :
              \E added \in SUBSET (NewFiles(dirpath, cur_pl(i).url[1]) \ DOMAIN files) :
                  /\ files' = [q \in (DOMAIN files) \cup added |->
                                  IF q \in added
                                  THEN [atoms |-> EmptyDict, audio |-> q]
                                  ELSE files[q]]
                  /\ proc' = [proc EXCEPT ![i] =
                         IF returncode_failed(returncode) THEN Raised(p, "media")
                         ELSE AfterStage(
                                  [p EXCEPT !.progress[proc[i].idx].media_ok = @ + 1,
                                            !.progress[proc[i].idx].fail =
                                                IF returncode = 0 THEN @ ELSE "media"],
                                  "media")]
    /\ UNCHANGED << config, runsLeft, listings, ntmp, synced >>

(***************************************************************************)
(* do_track_meta, lines 221-240: the glob, then one step per file, each    *)
(* step running update_m4a_meta (lines 170-218) to its end.                *)
(***************************************************************************)
MetaGlob(i) ==
    /\ proc[i].pc = "meta"
    /\ LET dirpath == dirpath_of(cur_pl(i))
           m4as == glob_m4a(DOMAIN files, dirpath)
       IN  /\ dirs' = dirs \cup {dirpath}
           /\ proc' = [proc EXCEPT ![i] =
                  [@ EXCEPT !.pc = "file", !.m4as = m4as,
                            !.progress[proc[i].idx].meta = @ + 1,
                            !.progress[proc[i].idx].globbed = m4as]]
    /\ UNCHANGED << config, runsLeft, listings, files, ntmp, synced >>

\* lines 230-232 and 236-238: the file is logged and skipped
Miss(i, rest, rec) ==
    /\ proc' = [proc EXCEPT ![i] =
           IF on_miss = "continue" THEN [@ EXCEPT !.m4as = rest, !.last = rec]
           ELSE Raised([@ EXCEPT !.last = rec], "miss")]
    /\ UNCHANGED << files, ntmp, synced >>

\* update_m4a_meta(pl, meta, m4a); rc_read and rc_write are the exit codes
\* of the tag editor, left is what a failed write leaves at its output path
UpdateM4aMeta(i, pl, ents, meta, m4a, rest, base) ==
    LET current_atoms == m4a_atoms(AP_print(files[m4a].atoms))
        cmd == update_command(pl, ents, meta, current_atoms)
        temp_name == temp_path(ntmp)
        out == output_path(m4a, temp_name)
        made == Put(files, temp_name, EmptyFile)
        written == Put(made, out, [atoms |-> AP_write(files[m4a].atoms, cmd),
                                   audio |-> files[m4a].audio])
        inputs == [pl |-> pl, meta |-> meta, n |-> len(ents)]
        rec == [base EXCEPT !.pl = Some(pl), !.meta = Some(meta), !.n = len(ents)]
        p0 == [proc[i] EXCEPT !.tagcalls.read = @ + 1,
                              !.progress[proc[i].idx].routed = @ \cup {m4a}]
    IN  \E rc_read \in ReturnCodes :
        LET p1 == [p0 EXCEPT !.progress[proc[i].idx].fail =
                                 IF rc_read # 0 THEN "tagread" ELSE @]
        IN  IF returncode_failed(rc_read)
            THEN /\ proc' = [proc EXCEPT ![i] =
                        Raised([p1 EXCEPT !.last = [rec EXCEPT !.kind = "readfail"]],
                               "tagread")]
                 /\ UNCHANGED << files, ntmp, synced >>
            ELSE IF ~update_needed(cmd)
            THEN /\ proc' = [proc EXCEPT ![i] =
                        [p1 EXCEPT !.m4as = rest,
                                   !.last = [rec EXCEPT !.kind = "skipped"]]]
                 /\ synced' = Put(synced, m4a, inputs)
                 /\ UNCHANGED << files, ntmp >>
            ELSE \E rc_write \in ReturnCodes :
                 LET p2 == [p1 EXCEPT !.tagcalls.write = @ + 1,
                                      !.progress[proc[i].idx].fail =
                                          IF rc_write # 0 THEN "tagwrite" ELSE @]
                 IN  IF returncode_failed(rc_write)
                     THEN /\ \E left \in {"empty", "partial"} :
                                 files' = IF left = "partial"
                                          THEN Put(made, out, PartialFile) ELSE made
                          /\ ntmp' = ntmp + 1
                          /\ proc' = [proc EXCEPT ![i] =
                                 Raised([p2 EXCEPT !.last =
                                            [rec EXCEPT !.kind = "writefail",
                                                        !.cmd = cmd,
                                                        !.temp = temp_name]],
                                        "tagwrite")]
                          /\ UNCHANGED synced
                     ELSE /\ files' = Remove(Put(written, m4a, written[temp_name]),
                                             temp_name)
                          /\ ntmp' = ntmp + 1
                          /\ synced' = Put(synced, m4a, inputs)
                          /\ proc' = [proc EXCEPT ![i] =
                                 [p2 EXCEPT !.m4as = rest,
                                            !.last = [rec EXCEPT !.kind = "updated",
                                                                 !.cmd = cmd,
                                                                 !.temp = temp_name]]]

MetaFile(i) ==
    /\ proc[i].pc = "file"
    /\ \E m4a \in proc[i].m4as :
           LET p == proc[i]
               ents == p.entries[p.idx]
               toks == re_split(m4a)
               rest == p.m4as \ {m4a}
               base == [NoLast EXCEPT !.path = m4a, !.before = files[m4a],
                                      !.pending = p.m4as,
                                      !.prev = dict_get(synced, m4a),
                                      !.reads = p.tagcalls.read,
                                      !.writes = p.tagcalls.write]
           IN  IF Len(toks) < 3
               THEN Miss(i, rest, [base EXCEPT !.kind = "noid"])
               ELSE LET entry == get_entry(ents, toks[Len(toks) - 1])
                    IN  IF entry = None
                        THEN Miss(i, rest, [base EXCEPT !.kind = "notfound"])
                        ELSE UpdateM4aMeta(i, cur_pl(i), ents, entry[1], m4a,
                                           rest, base)
    /\ UNCHANGED << config, runsLeft, dirs, listings >>

\* the for loop of do_track_meta is over: back in main's loop
MetaEnd(i) ==
    /\ proc[i].pc = "file"
    /\ proc[i].m4as = {}
    /\ proc' = [proc EXCEPT ![i] =
           AfterStage([@ EXCEPT !.progress[proc[i].idx].meta_ok = @ + 1], "meta")]
    /\ UNCHANGED << config, runsLeft, dirs, listings, files, ntmp, synced >>

\* the program is started again on the same configuration and folders
Restart(i) ==
    /\ proc[i].pc = "exit"
    /\ runsLeft[i] > 0
    /\ runsLeft' = [runsLeft EXCEPT ![i] = @ - 1]
    /\ proc' = [proc EXCEPT ![i] = FreshProc]
    /\ UNCHANGED << config, dirs, listings, files, ntmp, synced >>

Next ==
    \/ \E i \in Procs : MainConfig(i)
    \/ \E i \in Procs : ListingBegin(i)
    \/ \E i \in Procs : ListingProbe(i)
    \/ \E i \in Procs : ListingOpen(i)
    \/ \E i \in Procs : ListingFetch(i)
    \/ \E i \in Procs : DoDlMedia(i)
    \/ \E i \in Procs : MetaGlob(i)
    \/ \E i \in Procs : MetaFile(i)
    \/ \E i \in Procs : MetaEnd(i)

NextRuns ==
    \/ Next
    \/ \E i \in Procs : Restart(i)

(***************************************************************************)
(* Initial states.                                                         *)
(***************************************************************************)
Section(name, genre, url) ==
    [key \in {"name", "genre", "url"} |->
        IF key = "name" THEN name ELSE IF key = "genre" THEN genre ELSE url]

ConfigOf(sections) ==
    [readable |-> TRUE, opt_root |-> None, main_root |-> None,
     list_config |-> FALSE, sections |-> sections]

U_val == << "U" >>

\* the listing files numbered 0 .. n-1 of a folder, left by earlier runs
OldListings(dirpath, nums) ==
    [q \in {_listing_file(dirpath, k) : k \in nums} |->
        [data |-> << RawB >>, by |-> << 0, 0 >>, writers |-> {<< 0, 0 >>}]]

MediaFile(atoms, path) == [atoms |-> atoms, audio |-> path]

D_P == path_join(DEFAULT_ROOT, << "P" >>)

D_T == path_join(DEFAULT_ROOT, << "T" >>)

D_R == path_join(DEFAULT_ROOT, << "R" >>)

F_a(dirpath) == path_join(dirpath, media_name(ID_a))

F_c(dirpath) == path_join(dirpath, << "o", "-", "l", "d", "-" >> \o ID_c \o DotM4a)

F_x(dirpath) == path_join(dirpath, << "x" >> \o DotM4a)

F_txt(dirpath) == path_join(dirpath, << "n", ".", "t", "x", "t" >>)

\* the printed forms of the track numbers a file may start with
OldTracks == { << "1", " ", "o", "f", " ", "2" >>, << "7" >> }

\* the text atoms a user has set before the first run: none, one, or all
UserKeySets == {{}} \cup {{k} : k \in TextKeys} \cup {TextKeys}

\* every such choice of text atoms, with or without a track number
TagAtoms ==
    UNION { {[k \in ks |-> U_val]}
                \cup {Put([k \in ks |-> U_val], K_trkn, t) : t \in OldTracks} :
            ks \in UserKeySets }

MainAtoms == { EmptyDict, [k \in {K_ART} |-> << "Y" >>], [k \in TextKeys |-> U_val] }

\* one run of main over two playlists
Init ==
    /\ config = ConfigOf(<< Section(<< "P" >>, << "G" >>, U_main),
                            Section(<< "Q" >>, << "H" >>, U_other) >>)
    /\ runsLeft = [i \in {1} |-> 0]
    /\ proc = [i \in {1} |-> FreshProc]
    /\ dirs = {D_P}
    /\ \E n \in {0, 1, LastListingNum + 1} : listings = OldListings(D_P, 0..(n - 1))
    /\ \E atoms \in MainAtoms :
           files = [q \in {F_a(D_P), F_c(D_P), F_x(D_P), F_txt(D_P)} |->
                       MediaFile(IF q = F_a(D_P) THEN atoms ELSE EmptyDict, q)]
    /\ ntmp = 0
    /\ synced = EmptyDict

Spec == Init /\ [][Next]_vars

\* several runs of main over one playlist with one media file
InitTags ==
    /\ config = ConfigOf(<< Section(<< "T" >>, << "G" >>, U_tags) >>)
    /\ runsLeft = [i \in {1} |-> MaxRuns - 1]
    /\ proc = [i \in {1} |-> FreshProc]
    /\ dirs = {D_T}
    /\ listings = EmptyDict
    /\ \E atoms \in TagAtoms :
           files = [q \in {F_a(D_T)} |-> MediaFile(atoms, q)]
    /\ ntmp = 0
    /\ synced = EmptyDict

SpecTags == InitTags /\ [][NextRuns]_vars

\* two instances of the program started on the same playlist folder
InitRace ==
    /\ config = ConfigOf(<< Section(<< "R" >>, << "H" >>, U_other) >>)
    /\ runsLeft = [i \in {1, 2} |-> 0]
    /\ proc = [i \in {1, 2} |-> FreshProc]
    /\ dirs = {}
    /\ \E n \in 0..1 : listings = OldListings(D_R, 0..(n - 1))
    /\ files = EmptyDict
    /\ ntmp = 0
    /\ synced = EmptyDict

SpecRace == InitRace /\ [][Next]_vars

\* the sets of listing numbers already taken in a folder: a prefix, a prefix
\* with a gap, all but the last, all but one in the middle, and all of them
TakenSets ==
    { {}, 0..1, {0, 2}, 0..(LastListingNum - 1),
      (0..LastListingNum) \ {LastListingNum \div 2}, 0..LastListingNum }

\* one run of main on a folder that holds many listing files
InitNames ==
    /\ config = ConfigOf(<< Section(<< "R" >>, << "H" >>, U_other) >>)
    /\ runsLeft = [i \in {1} |-> 0]
    /\ proc = [i \in {1} |-> FreshProc]
    /\ dirs = {D_R}
    /\ \E taken \in TakenSets : listings = OldListings(D_R, taken)
    /\ files = EmptyDict
    /\ ntmp = 0
    /\ synced = EmptyDict

SpecNames == InitNames /\ [][Next]_vars

D_DH == path_join(DEFAULT_ROOT, N_DH)

F_foo(url) == path_join(D_DH, << "f", "o", "o", "-" >> \o E2E_ids(url)[1] \o DotM4a)

F_bar(url) == path_join(D_DH, << "b", "a", "r", "-" >> \o E2E_ids(url)[2] \o DotM4a)

\* runs of main on the playlist "Deep House": the folder holds foo-<id of
\* the first entry>.m4a without tags and bar-<id of the second>.m4a with
\* the artist "Y"
InitE2E ==
    /\ \E url \in {U_e2e, U_lit} :
           /\ config = ConfigOf(<< Section(N_DH, N_DH, url) >>)
           /\ files = [q \in {F_foo(url), F_bar(url)} |->
                          MediaFile(IF q = F_bar(url)
                                    THEN [k \in {K_ART} |-> << "Y" >>]
                                    ELSE EmptyDict, q)]
    /\ runsLeft = [i \in {1} |-> MaxRuns - 1]
    /\ proc = [i \in {1} |-> FreshProc]
    /\ dirs = {D_DH}
    /\ \E n \in 0..1 : listings = OldListings(D_DH, 0..(n - 1))
    /\ ntmp = 0
    /\ synced = EmptyDict

SpecE2E == InitE2E /\ [][NextRuns]_vars

\* the playlist sections a configuration file may hold: a good one, a good
\* one with a root of its own, and the bad ones
GoodSection == Section(<< "R" >>, << "H" >>, U_other)

SectionChoices ==
    { GoodSection,
      Put(GoodSection, "root", << "r" >>),
      Remove(GoodSection, "name"),
      Put(GoodSection, "name", << >>),
      Put(GoodSection, "name", << "a", "/", "b" >>),
      Put(GoodSection, "name", << "a", "NUL" >>),
      Remove(GoodSection, "url"),
      Remove(GoodSection, "genre") }

\* one run of main on any configuration of up to MaxSections sections, with
\* or without -l and -r, on a disk that holds nothing yet
InitConfig ==
    /\ \E sections \in SeqsUpTo(SectionChoices, MaxSections) :
       \E list \in BOOLEAN :
       \E r \in {None, Some(<< "o" >>)} :
           config = [readable |-> TRUE, opt_root |-> r, main_root |-> None,
                     list_config |-> list, sections |-> sections]
    /\ runsLeft = [i \in {1} |-> 0]
    /\ proc = [i \in {1} |-> FreshProc]
    /\ dirs = {}
    /\ listings = EmptyDict
    /\ files = EmptyDict
    /\ ntmp = 0
    /\ synced = EmptyDict

SpecConfig == InitConfig /\ [][Next]_vars

(***************************************************************************)
(* The loop of do_track_meta up to the identifier (lines 226-234), on a    *)
(* folder that holds one file.  proc holds the locals m4as, m4a, toks and  *)
(* entry_id, and what became of the file.                                  *)
(***************************************************************************)
NamePrefixes ==
    { << "A", "r", "t", "i", "s", "t", " ", "-", " ", "S", "o", "n", "g" >>,
      << "a", "-", "b" >>,
      << "s" >>, << "." >>, << >> }

NameSeparators == { << "-" >>, << "_" >>, << >> }

NameIds ==
    { << "d", "Y", "G", "g", "q", "J", "i", "J", "Z", "C", "A" >>,
      << "a", "-", "b", "_", "c", "-", "d", "_", "e", "-", "f" >>,
      << "-", "-", "-", "-", "-", "-", "-", "-", "-", "-", "-" >>,
      << "d", "Y", "G", "g", "q", "J", "i", "J", "Z", "C" >>,
      << "d", "Y", "G", "g", "q", "J", "i", "J", "Z", "C", "A", "B" >>,
      << "-", "Y", "G", "g", "q", "J", "i", "J", "Z", "C", "A", "B" >>,
      << "d", "Y", "G", "g", "q", "!", "i", "J", "Z", "C", "A" >>,
      << "d", "Y", "G", "g", "q", ".", "i", "J", "Z", "C", "A" >> }

NameExtensions == { DotM4a, << ".", "m", "p", "3" >>, << "m", "4", "a" >> }

\* the file names the folder may hold
NameChoices ==
    {pre \o sep \o id \o ext :
        pre \in NamePrefixes, sep \in NameSeparators, id \in NameIds,
        ext \in NameExtensions}

NewMatcher ==
    [pc |-> "glob", m4as |-> {}, m4a |-> << >>, toks |-> << >>,
     entry_id |-> None, outcome |-> "none"]

MatchGlob(i) ==
    /\ proc[i].pc = "glob"
    /\ proc' = [proc EXCEPT ![i] =
           [@ EXCEPT !.pc = "name", !.m4as = glob_m4a(DOMAIN files, D_DH)]]
    /\ UNCHANGED << config, runsLeft, dirs, listings, files, ntmp, synced >>

MatchFile(i) ==
    /\ proc[i].pc = "name"
    /\ \E m4a \in proc[i].m4as :
           LET toks == re_split(m4a)
           IN  proc' = [proc EXCEPT ![i] =
                   IF Len(toks) < 3
                   THEN [@ EXCEPT !.pc = "named", !.m4a = m4a, !.toks = toks,
                                  !.m4as = @ \ {m4a}, !.outcome = on_miss]
                   ELSE [@ EXCEPT !.pc = "named", !.m4a = m4a, !.toks = toks,
                                  !.m4as = @ \ {m4a}, !.outcome = "get_entry",
                                  !.entry_id = Some(toks[Len(toks) - 1])]]
    /\ UNCHANGED << config, runsLeft, dirs, listings, files, ntmp, synced >>

NextMatch ==
    \/ \E i \in Procs : MatchGlob(i)
    \/ \E i \in Procs : MatchFile(i)

InitMatch ==
    /\ config = ConfigOf(<< >>)
    /\ runsLeft = [i \in {1} |-> 0]
    /\ proc = [i \in {1} |-> NewMatcher]
    /\ dirs = {D_DH}
    /\ listings = EmptyDict
    /\ \E name \in NameChoices :
           files = [q \in {path_join(D_DH, name)} |-> MediaFile(EmptyDict, q)]
    /\ ntmp = 0
    /\ synced = EmptyDict

SpecMatch == InitMatch /\ [][NextMatch]_vars

(***************************************************************************)
(* update_m4a_meta up to its change set (lines 170-195), on the one entry  *)
(* of a playlist and a file whose atoms have been read.  proc holds the    *)
(* title, the atoms read, the result of split_artist and the change set.   *)
(***************************************************************************)
TitleChars == {"a", " ", "-"}

TitleChoices == SeqsUpTo(TitleChars, MaxTitleLen)

NewSplitter(title, atoms) ==
    [pc |-> "title", title |-> title, current_atoms |-> atoms,
     result |-> << >>, cmd |-> << >>]

SplitCall(i) ==
    /\ proc[i].pc = "title"
    /\ LET pl == [name |-> Some(N_DH), genre |-> Some(N_DH),
                  url |-> Some(U_e2e), root |-> Some(DEFAULT_ROOT)]
           ents == populate(EmptyDict, << [id |-> ID_a, title |-> proc[i].title] >>)
       IN  proc' = [proc EXCEPT ![i] =
               [@ EXCEPT !.pc = "split",
                         !.result = split_artist(proc[i].title),
                         !.cmd = update_command(pl, ents, ents[ID_a],
                                                proc[i].current_atoms)]]
    /\ UNCHANGED << config, runsLeft, dirs, listings, files, ntmp, synced >>

NextSplit == \E i \in Procs : SplitCall(i)

InitSplit ==
    /\ config = ConfigOf(<< >>)
    /\ runsLeft = [i \in {1} |-> 0]
    /\ \E title \in TitleChoices :
       \E atoms \in {EmptyDict, [k \in {K_nam} |-> U_val], [k \in {K_ART} |-> U_val]} :
           proc = [i \in {1} |-> NewSplitter(title, atoms)]
    /\ dirs = {}
    /\ listings = EmptyDict
    /\ files = EmptyDict
    /\ ntmp = 0
    /\ synced = EmptyDict

SpecSplit == InitSplit /\ [][NextSplit]_vars

(***************************************************************************)
(* A Playlist object on its own: constructed with an empty Entry Store     *)
(* (line 88), then populate is called on it with one listing after         *)
(* another.  proc holds the object: its entries, and the listings given.   *)
(***************************************************************************)
NewPlaylist == [pc |-> "playlist", entries |-> EmptyDict, calls |-> << >>]

PopulateCall(i) ==
    /\ proc[i].pc = "playlist"
    /\ Len(proc[i].calls) < MaxCalls
    /\ \E raw \in ListingsOf(U_main) :
           proc' = [proc EXCEPT ![i] =
               [@ EXCEPT !.entries = populate(@, raw),
                         !.calls = Append(@, raw)]]
    /\ UNCHANGED << config, runsLeft, dirs, listings, files, ntmp, synced >>

NextStore == \E i \in Procs : PopulateCall(i)

InitStore ==
    /\ config = ConfigOf(<< >>)
    /\ runsLeft = [i \in {1} |-> 0]
    /\ proc = [i \in {1} |-> NewPlaylist]
    /\ dirs = {}
    /\ listings = EmptyDict
    /\ files = EmptyDict
    /\ ntmp = 0
    /\ synced = EmptyDict

SpecStore == InitStore /\ [][NextStore]_vars

(***************************************************************************)
(* Properties of the reconciler, checked under SpecTags.                   *)
(***************************************************************************)
\* the last call of update_m4a_meta by instance i got as far as computing
\* its change set
Computed(i) == proc[i].last.kind \in {"skipped", "updated", "writefail"}

\* the change set that call computed
ChangeSet(i) == proc[i].last.cmd

\* the inputs (playlist, entry, size of the Entry Store) of that call
InputsOf(i) ==
    [pl |-> proc[i].last.pl[1], meta |-> proc[i].last.meta[1], n |-> proc[i].last.n]

Flags(cmd) == {cmd[k][1] : k \in 1..Len(cmd)}

\* C1: when update_m4a_meta runs on a file whose last completed reconcile
\* had the same playlist, the same entry and the same Entry Store size, and
\* the file was not changed since, its change set is empty.
C1_Idempotent ==
    \A i \in Procs :
        (Computed(i) /\ proc[i].last.prev = Some(InputsOf(i)))
            => ChangeSet(i) = << >>

\* a second call on unchanged inputs, after a first call that wrote the
\* track number 2/2 (no file starts with it)
C1_Witness ==
    \E i \in Procs :
        /\ proc[i].last.kind = "skipped"
        /\ proc[i].last.prev = Some(InputsOf(i))
        /\ K_trkn \in DOMAIN files[proc[i].last.path].atoms
        /\ files[proc[i].last.path].atoms[K_trkn] = << "2", " ", "o", "f", " ", "2" >>

\* C2: a change set never names album, genre, title or artist when the file
\* already has that atom, and a step of do_track_meta leaves every such atom
\* of the file it handles with the value it had.
C2_NoOverwrite ==
    \A i \in Procs :
        LET l == proc[i].last
        IN  /\ Computed(i) =>
                \A flag \in Flags(l.cmd) :
                    FlagKey(flag) \in TextKeys
                        => FlagKey(flag) \notin DOMAIN l.before.atoms
            /\ l.kind # "none" =>
                \A key \in TextKeys \cap DOMAIN l.before.atoms :
                    /\ l.path \in DOMAIN files
                    /\ key \in DOMAIN files[l.path].atoms
                    /\ files[l.path].atoms[key] = l.before.atoms[key]

\* a file whose genre the user had set to something other than the
\* playlist's genre has been rewritten, and the genre is still the user's
C2_Witness ==
    \E i \in Procs :
        LET l == proc[i].last
        IN  /\ l.kind = "updated"
            /\ K_gen \in DOMAIN l.before.atoms
            /\ l.before.atoms[K_gen] # l.pl[1].genre[1]
            /\ "--album" \in Flags(l.cmd)
            /\ files[l.path].atoms[K_gen] = l.before.atoms[K_gen]

\* the track number of a call, as the code formats it and as the tag editor
\* prints it
SlashForm(i) ==
    FormatD(proc[i].last.meta[1].pos) \o << "/" >> \o FormatD(proc[i].last.n)

PrintedForm(i) ==
    FormatD(proc[i].last.meta[1].pos) \o << " ", "o", "f", " " >>
        \o FormatD(proc[i].last.n)

\* C3: the change set has a track-number update, to "pos/total", exactly
\* when the file has no track number or one that is not pos of total; and a
\* call that follows a completed reconcile of the same file for the same
\* playlist and entry title, but with another pos, has that update alone.
C3_TrackAlways ==
    \A i \in Procs :
        LET l == proc[i].last
        IN  Computed(i) =>
            /\ ("--tracknum" \in Flags(l.cmd))
                  <=> (\/ K_trkn \notin DOMAIN l.before.atoms
                       \/ l.before.atoms[K_trkn] # PrintedForm(i))
            /\ \A k \in 1..Len(l.cmd) :
                   l.cmd[k][1] = "--tracknum" => l.cmd[k][2] = SlashForm(i)
            /\ (/\ l.prev # None
                /\ l.prev[1].pl = l.pl[1]
                /\ l.prev[1].meta.id = l.meta[1].id
                /\ l.prev[1].meta.title = l.meta[1].title
                /\ l.prev[1].meta.pos # l.meta[1].pos)
                  => l.cmd = << << "--tracknum", SlashForm(i) >> >>

\* the entry moved from position 1 to position 2 between two runs and the
\* second run rewrote the file
C3_Witness ==
    \E i \in Procs :
        LET l == proc[i].last
        IN  /\ l.kind = "updated"
            /\ l.prev # None
            /\ l.prev[1].meta.title = l.meta[1].title
            /\ l.prev[1].meta.pos = 1
            /\ l.meta[1].pos = 2
            /\ files[l.path].atoms[K_trkn] = PrintedForm(i)

\* C7: when the tag read or the tag write fails, the media file is exactly
\* as it was before the call and the temporary file of a failed write is
\* still there; a media file is replaced only by a write that exited with 0,
\* and then holds what the tag editor wrote to the temporary path.
C7_OriginalUntouched ==
    \A i \in Procs :
        LET l == proc[i].last
        IN  /\ l.kind \in {"readfail", "writefail"} =>
                /\ l.path \in DOMAIN files
                /\ files[l.path] = l.before
                /\ proc[i].exitcode = Some(1)
            /\ l.kind = "readfail" => proc[i].tagcalls.write = l.writes
            /\ l.kind = "writefail" =>
                /\ l.temp # l.path
                /\ l.temp \in DOMAIN files
                /\ files[l.temp] \in {EmptyFile, PartialFile}
            /\ l.kind = "updated" =>
                /\ proc[i].progress[proc[i].idx].fail # "tagwrite"
                /\ l.temp \notin DOMAIN files
                /\ files[l.path] = [atoms |-> AP_write(l.before.atoms, l.cmd),
                                    audio |-> l.before.audio]

\* a write failed on a file that had tags, and left a partial temporary file
C7_Witness ==
    \E i \in Procs :
        LET l == proc[i].last
        IN  /\ l.kind = "writefail"
            /\ l.before.atoms # EmptyDict
            /\ files[l.temp] = PartialFile
            /\ files[l.path] = l.before

\* C11: a step in which update_m4a_meta computes an empty change set makes
\* no temporary file (no name is taken from mkstemp and no file appears),
\* does not run the tag editor to write, moves nothing, and leaves every
\* file, the media file included, as it was.
C11_EmptyMeansNoWrite ==
    [][\A i \in Procs :
          (/\ proc[i].pc = "file"
           /\ proc'[i].last # proc[i].last
           /\ proc'[i].last.kind \in {"skipped", "updated", "writefail"}
           /\ proc'[i].last.cmd = << >>)
              => /\ ntmp' = ntmp
                 /\ files' = files
                 /\ proc'[i].tagcalls.write = proc[i].tagcalls.write
                 /\ proc'[i].last.kind = "skipped"
                 /\ proc'[i].last.temp = << >>]_vars

\* the second run found every atom of the file in place, the user's genre
\* among them: it read the tags, wrote nothing, and the only temporary name
\* ever taken is the first run's
C11_Witness ==
    \E i \in Procs :
        LET l == proc[i].last
        IN  /\ l.kind = "skipped"
            /\ l.cmd = << >>
            /\ K_gen \in DOMAIN l.before.atoms
            /\ l.before.atoms[K_gen] = U_val
            /\ files[l.path] = l.before
            /\ ntmp = 1
            /\ proc[i].tagcalls = [read |-> 1, write |-> 0]

(***************************************************************************)
(* Properties of the Entry Store and of main's loop, checked under Spec.   *)
(***************************************************************************)
\* the 1-based index of the first entry of a listing with the given id
FirstIndex(raw, id) ==
    CHOOSE k \in 1..Len(raw) :
        /\ raw[k].id = id
        /\ \A j \in 1..(k - 1) : raw[j].id # id

\* C4: once the listing stage of a playlist has populated its (empty) Entry
\* Store from the fetched listing, every stored entry's pos is the 1-based
\* index of the first occurrence of its id in that listing.
C4_FirstOccurrence ==
    \A i \in Procs :
        \A k \in 1..Len(proc[i].progress) :
            proc[i].progress[k].listing_ok = 1 =>
                \A id \in DOMAIN proc[i].entries[k] :
                    proc[i].entries[k][id].pos
                        = FirstIndex(proc[i].progress[k].fetched[1], id)

\* C19: once the listing stage of a playlist has populated its Entry Store,
\* every stored entry has 1 <= pos <= len(playlist) and distinct entries
\* have distinct pos; and the track number "pos/total" of every change set
\* computed by update_m4a_meta has pos <= total.
C19_TrackInRange ==
    \A i \in Procs :
        /\ \A k \in 1..Len(proc[i].progress) :
               proc[i].progress[k].listing_ok = 1 =>
                   LET ents == proc[i].entries[k]
                   IN  /\ \A id \in DOMAIN ents :
                              1 <= ents[id].pos /\ ents[id].pos <= len(ents)
                       /\ \A id1 \in DOMAIN ents : \A id2 \in DOMAIN ents :
                              id1 # id2 => ents[id1].pos # ents[id2].pos
        /\ Computed(i) =>
               /\ proc[i].last.meta[1].pos <= proc[i].last.n
               /\ \A k \in 1..Len(proc[i].last.cmd) :
                      proc[i].last.cmd[k][1] = "--tracknum" =>
                          \E pos \in 1..proc[i].last.n :
                              proc[i].last.cmd[k][2]
                                  = FormatD(pos) \o << "/" >> \o FormatD(proc[i].last.n)

\* C5: per playlist each stage and each call of the listing and the media
\* service is started at most once; the media stage starts only after the
\* listing stage has returned, the reconcile stage only after the media
\* stage has returned; and a playlist's first stage starts only after the
\* last stage of the playlist before it has returned.
C5_StageOrder ==
    \A i \in Procs :
        \A k \in 1..Len(proc[i].progress) :
            LET pr == proc[i].progress[k]
            IN  /\ pr.listing <= 1 /\ pr.media <= 1 /\ pr.meta <= 1
                /\ pr.list_calls <= 1 /\ pr.dl_calls <= 1
                /\ pr.listing_ok <= pr.listing
                /\ pr.media_ok <= pr.media
                /\ pr.meta_ok <= pr.meta
                /\ pr.list_calls > 0 => pr.listing > 0
                /\ pr.dl_calls > 0 => pr.media > 0
                /\ pr.media > 0 => pr.listing_ok = 1
                /\ pr.meta > 0 => pr.media_ok = 1
                /\ (k > 1 /\ pr.listing + pr.media + pr.meta > 0)
                       => proc[i].progress[k - 1].meta_ok = 1

\* both playlists have been through their three stages
C5_Witness ==
    \E i \in Procs :
        /\ Len(proc[i].progress) = 2
        /\ proc[i].progress[1].meta_ok = 1
        /\ proc[i].progress[2].meta_ok = 1
        /\ proc[i].progress[2].list_calls = 1
        /\ proc[i].progress[2].dl_calls = 1

\* the stages of a playlist that have not been started
Unstarted(pr) == {st \in {"listing", "media", "meta"} : pr[st] = 0}

\* C6: once a tool has exited with a non-zero code or the listing names
\* have run out, the process has ended with exit status 1, the later stages
\* of that playlist and every stage of the later playlists have not been
\* started, and the files of the playlist still to be handled stay so; the
\* exit status is 0 only if every stage of every playlist has returned
\* without such a failure.
C6_AbortOnFailure ==
    \A i \in Procs :
        LET p == proc[i]
        IN  /\ \A k \in 1..Len(p.progress) :
                p.progress[k].fail # "none" =>
                    /\ p.pc = "exit" /\ p.exitcode = Some(1)
                    /\ p.idx = k
                    /\ p.progress[k].fail \in {"names", "open", "listing", "parse"}
                           => Unstarted(p.progress[k]) = {"media", "meta"}
                    /\ p.progress[k].fail = "media"
                           => Unstarted(p.progress[k]) = {"meta"}
                    /\ p.progress[k].fail \in {"tagread", "tagwrite"}
                           => /\ p.last.path \in p.m4as
                              /\ p.progress[k].routed \cap p.m4as = {p.last.path}
                    /\ \A k2 \in (k + 1)..Len(p.progress) :
                           p.progress[k2] = NoProgress
            /\ p.exitcode = Some(0) =>
                \A k \in 1..Len(p.progress) :
                    /\ p.progress[k].fail = "none"
                    /\ p.progress[k].listing_ok = 1
                    /\ p.progress[k].media_ok = 1
                    /\ p.progress[k].meta_ok = 1

\* a tag read failed in the first playlist while other files were still to
\* be handled, and the second playlist was never started
C6_Witness ==
    \E i \in Procs :
        /\ Len(proc[i].progress) = 2
        /\ proc[i].progress[1].fail = "tagread"
        /\ Cardinality(proc[i].m4as) > 1
        /\ proc[i].progress[2] = NoProgress
        /\ proc[i].exitcode = Some(1)

\* the file resolves to an entry of the store
Resolves(path, ents) ==
    /\ Len(re_split(path)) >= 3
    /\ re_split(path)[2] \in DOMAIN ents

\* C10: a file without an identifier in its name, or with one the Entry
\* Store does not hold, is never handed to update_m4a_meta and is not
\* changed; the step that skips it calls the tag editor neither for reading
\* nor for writing and raises nothing; and when the reconcile stage returns,
\* every file of the folder that does resolve has been handed to
\* update_m4a_meta.
C10_MissSkipsOneFile ==
    \A i \in Procs :
        LET p == proc[i]
            l == p.last
        IN  /\ l.kind \in {"noid", "notfound"} =>
                /\ files[l.path] = l.before
                /\ p.tagcalls = [read |-> l.reads, write |-> l.writes]
                /\ l.path \notin p.m4as
                /\ (l.pending \ {l.path}) \subseteq
                       (p.m4as \cup p.progress[p.idx].routed \cup
                            {q \in l.pending : ~Resolves(q, p.entries[p.idx])})
                /\ \A k \in 1..Len(p.progress) : p.progress[k].fail # "miss"
            /\ \A k \in 1..Len(p.progress) :
                   LET pr == p.progress[k]
                   IN  /\ \A q \in pr.routed : Resolves(q, p.entries[k])
                       /\ pr.meta_ok = 1 =>
                              \A q \in pr.globbed :
                                  Resolves(q, p.entries[k]) => q \in pr.routed

\* the folder of the first playlist held a file without an identifier and a
\* file of an unknown identifier; both were skipped and the third file was
\* reconciled
C10_Witness ==
    \E i \in Procs :
        LET pr == proc[i].progress[1]
        IN  /\ Len(proc[i].progress) = 2
            /\ pr.meta_ok = 1
            /\ F_a(D_P) \in pr.routed
            /\ {F_x(D_P), F_c(D_P)} \subseteq pr.globbed \ pr.routed
            /\ proc[i].last.kind \in {"noid", "notfound"}

(***************************************************************************)
(* Properties of the listing files, checked under SpecRace and SpecNames.  *)
(***************************************************************************)
\* instance i has executed the os.open of its listing stage
DidOpen(i) ==
    /\ Len(proc[i].progress) > 0
    /\ \/ proc[i].progress[1].fail = "open"
       \/ proc[i].pc = "fetch"
       \/ proc[i].progress[1].list_calls > 0

\* C8: a listing file is written only by the instance that created it; and
\* of two instances that open the same listing number, exactly one creates
\* the file and the other ends with an error, having written nothing.
C8_NoClobber ==
    /\ \A path \in DOMAIN listings :
           listings[path].writers \subseteq {listings[path].by}
    /\ \A i \in Procs : \A j \in Procs \ {i} :
           (DidOpen(i) /\ DidOpen(j) /\ proc[i].attempt = proc[j].attempt) =>
               LET path == _listing_file(dirpath_of(cur_pl(i)), proc[i].attempt)
                   lost == {q \in {i, j} : proc[q].progress[1].fail = "open"}
               IN  /\ Cardinality(lost) = 1
                   /\ \A q \in lost :
                          /\ proc[q].exitcode = Some(1)
                          /\ proc[q].progress[1].list_calls = 0
                          /\ listings[path].by \in {<< r, 0 >> : r \in {i, j} \ {q}}

\* both instances found the same number free; one created and wrote the
\* file, the other failed at its open
C8_Witness ==
    \E i \in Procs : \E j \in Procs \ {i} :
        /\ DidOpen(i) /\ DidOpen(j)
        /\ proc[i].attempt = proc[j].attempt
        /\ proc[j].progress[1].fail = "open"
        /\ LET path == _listing_file(dirpath_of(cur_pl(i)), proc[i].attempt)
           IN  /\ listings[path].data # << >>
               /\ listings[path].writers = {<< i, 0 >>}

\* the name listing.NNN.txt of a number below 1000, digit by digit
NameOfNum(dirpath, n) ==
    dirpath \o << "/", "l", "i", "s", "t", "i", "n", "g", ".",
                  Digit[(n \div 100) + 1], Digit[((n \div 10) % 10) + 1],
                  Digit[(n % 10) + 1], ".", "t", "x", "t" >>

\* the listing numbers not taken in the folder when the listing stage began
FreeNums(i) ==
    {n \in 0..LastListingNum :
        NameOfNum(dirpath_of(cur_pl(i)), n) \notin proc[i].progress[1].before}

\* the listing stage of instance i is past its probing
DoneProbing(i) ==
    /\ Len(proc[i].progress) > 0
    /\ \/ proc[i].progress[1].fail = "names"
       \/ proc[i].pc \notin {"listing", "probe", "open"}

\* C9: the listing stage creates listing.NNN.txt for the least NNN in
\* 000..999 that is not taken and no other file; when all thousand names
\* are taken it fails with exit status 1, creates no file and does not call
\* the listing service.
C9_ListingNaming ==
    \A i \in Procs :
        DoneProbing(i) =>
            LET pr == proc[i].progress[1]
                free == FreeNums(i)
                created == (DOMAIN listings) \ pr.before
            IN  IF free = {}
                THEN /\ pr.fail = "names"
                     /\ proc[i].exitcode = Some(1)
                     /\ created = {}
                     /\ pr.list_calls = 0
                ELSE LET least == CHOOSE n \in free : \A m \in free : n <= m
                     IN  /\ pr.fail # "names"
                         /\ proc[i].attempt = least
                         /\ created = {NameOfNum(dirpath_of(cur_pl(i)), least)}

\* with listing.000.txt and listing.001.txt in the folder, the fetch wrote
\* listing.002.txt
C9_Witness ==
    \E i \in Procs :
        LET name002 == D_R \o << "/", "l", "i", "s", "t", "i", "n", "g", ".",
                                 "0", "0", "2", ".", "t", "x", "t" >>
        IN  /\ DoneProbing(i)
            /\ FreeNums(i) = 2..LastListingNum
            /\ name002 \in DOMAIN listings
            /\ listings[name002].data # << >>

\* the listing files of the folder of playlist k of instance i that were
\* not there when its listing stage began, in the state s of the files
CreatedListings(s, p, k) ==
    {q \in DOMAIN s : InDir(q, dirpath_of(p.playlists[k]))} \ p.progress[k].before

\* C15: over any number of runs, no step removes a listing file, and a step
\* changes a listing file only if it is the still empty, never written file
\* that the running instance created in this run and holds open; and once a
\* listing stage has returned, the folder has exactly one listing file that
\* was not there when the stage began, holding the output of the fetch.
C15_WriteOnceVerbatim ==
    [][/\ \A q \in DOMAIN listings :
              /\ q \in DOMAIN listings'
              /\ listings'[q] # listings[q] =>
                     /\ listings[q].data = << >>
                     /\ listings[q].writers = {}
                     /\ \E i \in Procs :
                            /\ listings[q].by = << i, runsLeft[i] >>
                            /\ proc[i].fd = Some(q)
       /\ \A i \in Procs :
              \A k \in 1..Len(proc'[i].progress) :
                  proc'[i].progress[k].listing_ok = 1 =>
                      \E q \in DOMAIN listings' :
                          /\ CreatedListings(listings', proc'[i], k) = {q}
                          /\ listings'[q].data = proc'[i].progress[k].fetched[1]]_vars

\* the second run has written listing.001.txt with a listing that differs
\* from the one the first run left in listing.000.txt
C15_Witness ==
    \E i \in Procs :
        /\ runsLeft[i] = MaxRuns - 2
        /\ Len(proc[i].progress) = 1
        /\ proc[i].progress[1].listing_ok = 1
        /\ proc[i].progress[1].before = {NameOfNum(D_T, 0)}
        /\ DOMAIN listings = {NameOfNum(D_T, 0), NameOfNum(D_T, 1)}
        /\ listings[NameOfNum(D_T, 1)].data = proc[i].progress[1].fetched[1]
        /\ listings[NameOfNum(D_T, 0)].data = << RawB >>
        /\ listings[NameOfNum(D_T, 1)].data = << RawA1 >>

\* the listing files that an earlier run of instance i created and never
\* wrote: what a failed fetch leaves behind
LeftByFailedFetch(i) ==
    {q \in DOMAIN listings :
        /\ listings[q].by[1] = i
        /\ listings[q].by[2] > runsLeft[i]
        /\ listings[q].writers = {}}

\* C20: when the fetch of the listing exits with a non-zero code or its
\* output cannot be parsed, the run ends with exit status 1; the listing
\* file it created before the fetch is on disk, empty; the Entry Store is
\* empty and the file is closed.  Such a file stays empty in later runs, and
\* a later run, once past its probing, has found it, passed over its number
\* and settled on the least number not taken.
C20_FailedFetchKeepsName ==
    \A i \in Procs :
        /\ \A k \in 1..Len(proc[i].progress) :
               proc[i].progress[k].fail \in {"listing", "parse"} =>
                   LET q == NameOfNum(dirpath_of(proc[i].playlists[k]), proc[i].attempt)
                   IN  /\ proc[i].pc = "exit" /\ proc[i].exitcode = Some(1)
                       /\ proc[i].progress[k].list_calls = 1
                       /\ q \in DOMAIN listings
                       /\ q \notin proc[i].progress[k].before
                       /\ listings[q].by = << i, runsLeft[i] >>
                       /\ listings[q].data = << >>
                       /\ listings[q].writers = {}
                       /\ proc[i].entries[k] = EmptyDict
                       /\ proc[i].fd = None
        /\ \A q \in LeftByFailedFetch(i) :
               /\ listings[q].data = << >>
               /\ DoneProbing(i) =>
                      LET dirpath == dirpath_of(cur_pl(i))
                      IN  /\ q \in proc[i].progress[1].before
                          /\ q # NameOfNum(dirpath, proc[i].attempt)
                          /\ NameOfNum(dirpath, proc[i].attempt)
                                 \notin proc[i].progress[1].before
                          /\ \A n \in 0..(proc[i].attempt - 1) :
                                 NameOfNum(dirpath, n) \in proc[i].progress[1].before

\* the first run's fetch failed and left listing.000.txt empty; the second
\* run wrote its listing to listing.001.txt
C20_Witness ==
    \E i \in Procs :
        /\ LeftByFailedFetch(i) = {NameOfNum(D_T, 0)}
        /\ proc[i].attempt = 1
        /\ proc[i].progress[1].listing_ok = 1
        /\ listings[NameOfNum(D_T, 0)].data = << >>
        /\ listings[NameOfNum(D_T, 1)].data # << >>

(***************************************************************************)
(* Properties of main's configuration pass, checked under SpecConfig.      *)
(***************************************************************************)
\* the root a section ends up with: its own, or -r, or DEFAULT_ROOT
RootFor(section) ==
    IF "root" \in DOMAIN section THEN Some(section["root"])
    ELSE IF config.opt_root # None THEN config.opt_root
    ELSE Some(DEFAULT_ROOT)

\* a section with a configuration error, in the words of the claim
BadSection(section) ==
    \/ "name" \notin DOMAIN section
    \/ section["name"] = << >>
    \/ \E k \in 1..Len(section["name"]) : section["name"][k] \in {"/", "NUL"}
    \/ "url" \notin DOMAIN section
    \/ "genre" \notin DOMAIN section
    \/ RootFor(section) = None

Misconfigured == \E k \in 1..Len(config.sections) : BadSection(config.sections[k])

\* C16: when some section has a configuration error, main goes from its
\* configuration pass straight to its end with exit status 1: no directory
\* and no file is ever created, no stage of any playlist is started and no
\* external tool is run, whatever sections come before the bad one.
C16_ConfigErrorsFatal ==
    Misconfigured =>
        /\ dirs = {} /\ listings = EmptyDict /\ files = EmptyDict /\ ntmp = 0
        /\ \A i \in Procs :
               /\ proc[i].pc \in {"config", "exit"}
               /\ proc[i].pc = "exit" => proc[i].exitcode = Some(1)
               /\ proc[i].progress = << >>
               /\ proc[i].playlists = << >>
               /\ proc[i].tagcalls = [read |-> 0, write |-> 0]

\* a good section followed by one without a url: main has ended with exit
\* status 1 and the folder of the good playlist was not made
C16_Witness ==
    \E i \in Procs :
        /\ config.sections = << GoodSection, Remove(GoodSection, "url") >>
        /\ ~config.list_config
        /\ proc[i].pc = "exit"
        /\ proc[i].exitcode = Some(1)
        /\ D_R \notin dirs

(***************************************************************************)
(* Properties of the file name pattern, checked under SpecMatch.           *)
(***************************************************************************)
\* the ways to cut a name into a part before, a "-", IdLen characters of
\* the class [A-Za-z0-9_-], and ".m4a": the sets of such identifiers
SuffixIds(name) ==
    {id \in {SubSeq(name, j + 1, j + IdLen) : j \in 1..(Len(name) - IdLen)} :
        /\ Len(id) = IdLen
        /\ \A k \in 1..IdLen : id[k] \in IdChars
        /\ \E pre \in {SubSeq(name, 1, j) : j \in 0..Len(name)} :
               name = pre \o << "-" >> \o id \o DotM4a}

\* C17: for a file of the folder that do_track_meta looks at, if its name
\* ends in "-", IdLen characters of [A-Za-z0-9_-] and ".m4a", the
\* identifier taken from it is those characters; otherwise no identifier is
\* taken and the file is passed over with "continue", nothing raised.
C17_FilenameMatching ==
    \A i \in Procs :
        proc[i].pc = "named" =>
            IF SuffixIds(proc[i].m4a) # {}
            THEN /\ proc[i].outcome = "get_entry"
                 /\ proc[i].entry_id # None
                 /\ SuffixIds(proc[i].m4a) = {proc[i].entry_id[1]}
            ELSE /\ proc[i].outcome = "continue"
                 /\ proc[i].entry_id = None

\* the name "Artist - Song-dYGgqJiJZCA.m4a" gave the identifier dYGgqJiJZCA
C17_Witness ==
    \E i \in Procs :
        /\ proc[i].pc = "named"
        /\ proc[i].m4a = path_join(D_DH, << "A", "r", "t", "i", "s", "t", " ", "-", " ", "S", "o", "n", "g", "-", "d", "Y", "G", "g", "q", "J", "i", "J", "Z", "C", "A", ".", "m", "4", "a" >>)
        /\ proc[i].entry_id = Some(<< "d", "Y", "G", "g", "q", "J", "i", "J", "Z", "C", "A" >>)

(***************************************************************************)
(* Properties of split_artist, checked under SpecSplit.                    *)
(***************************************************************************)
\* the places (1-based) where sep occurs in s
Occurrences(s, sep) ==
    {k \in 1..(Len(s) - Len(sep) + 1) : SubSeq(s, k, k + Len(sep) - 1) = sep}

\* s without the whitespace around it
Trimmed(s) ==
    LET inner == {k \in 1..Len(s) : s[k] \notin {" ", "\t", "\n", "\r"}}
    IN  IF inner = {} THEN << >>
        ELSE SubSeq(s, CHOOSE k \in inner : \A j \in inner : k <= j,
                       CHOOSE k \in inner : \A j \in inner : k >= j)

\* the text before and the text after the first occurrence of sep, trimmed
CutAtFirst(s, sep) ==
    LET k == CHOOSE n \in Occurrences(s, sep) : \A j \in Occurrences(s, sep) : n <= j
    IN  << Trimmed(SubSeq(s, 1, k - 1)), Trimmed(SubSeq(s, k + Len(sep), Len(s))) >>

\* C18: split_artist of a title with " - " gives the text before and the
\* text after the first " - ", trimmed; of a title without " - " but with
\* "-", the text before and after the first "-", trimmed; of any other
\* title, no artist and the title itself, with the warning.  The song is
\* never None, and when the file has no title atom the change set has a
\* title update, to that song.
C18_SplitArtist ==
    \A i \in Procs :
        proc[i].pc = "split" =>
            LET s == proc[i].title
                r == proc[i].result
                spaced == << " ", "-", " " >>
                bare == << "-" >>
            IN  /\ IF Occurrences(s, spaced) # {}
                   THEN /\ << r[1], r[2] >> =
                               << Some(CutAtFirst(s, spaced)[1]),
                                  Some(CutAtFirst(s, spaced)[2]) >>
                        /\ ~r[3]
                   ELSE IF Occurrences(s, bare) # {}
                   THEN /\ << r[1], r[2] >> =
                               << Some(CutAtFirst(s, bare)[1]),
                                  Some(CutAtFirst(s, bare)[2]) >>
                        /\ ~r[3]
                   ELSE r = << None, Some(s), TRUE >>
                /\ r[2] # None
                /\ K_nam \notin DOMAIN proc[i].current_atoms =>
                       \E k \in 1..Len(proc[i].cmd) :
                           proc[i].cmd[k] = << "--title", r[2][1] >>

\* the title "a -a" was cut at its bare "-" into "a" and "a", and the file
\* without a title atom got a title update
C18_Witness ==
    \E i \in Procs :
        /\ proc[i].pc = "split"
        /\ proc[i].title = << "a", " ", "-", "a" >>
        /\ proc[i].result = << Some(<< "a" >>), Some(<< "a" >>), FALSE >>
        /\ proc[i].current_atoms = EmptyDict
        /\ "--title" \in Flags(proc[i].cmd)

(***************************************************************************)
(* The run on the playlist "Deep House", checked under SpecE2E.            *)
(***************************************************************************)
\* the url of the only configured playlist
TheUrl == config.sections[1]["url"]

\* the atoms of the two files as the example gives them; the tag editor
\* stores and prints the track number "1/2" as "1 of 2"
Song1Atoms ==
    [k \in TextKeys \cup {K_trkn} |->
        IF k \in {K_gen, K_alb} THEN N_DH
        ELSE IF k = K_nam THEN << "S", "o", "n", "g", "1" >>
        ELSE IF k = K_ART THEN << "X" >>
        ELSE << "1", " ", "o", "f", " ", "2" >>]

Song2Atoms ==
    [k \in TextKeys \cup {K_trkn} |->
        IF k \in {K_gen, K_alb} THEN N_DH
        ELSE IF k = K_nam THEN << "S", "o", "n", "g", "2" >>
        ELSE IF k = K_ART THEN << "Y" >>
        ELSE << "2", " ", "o", "f", " ", "2" >>]

\* what the example says of a run on the playlist served at url
EndToEnd(url) ==
    \A i \in Procs :
        /\ (TheUrl = url /\ proc[i].exitcode = Some(0)) =>
               /\ files[F_foo(url)].atoms = Song1Atoms
               /\ files[F_bar(url)].atoms = Song2Atoms
        /\ (TheUrl = url /\ Computed(i) /\ proc[i].last.path = F_bar(url)) =>
               "--artist" \notin Flags(proc[i].last.cmd)

\* C12: with identifiers of IdLen characters (the files are
\* foo-aaaaaaaaaaa.m4a and bar-bbbbbbbbbbb.m4a), a run that ends with exit
\* status 0 leaves the first file with album and genre "Deep House", title
\* "Song1", artist "X" and track 1 of 2, the second with album and genre
\* "Deep House", title "Song2", track 2 of 2 and artist "Y", and no change
\* set computed for the second file names the artist.
C12_EndToEnd == EndToEnd(U_e2e)

\* the first run ended with exit status 0, having rewritten both files, the
\* second of them last and without an artist option
C12_Witness ==
    \E i \in Procs :
        /\ TheUrl = U_e2e
        /\ proc[i].exitcode = Some(0)
        /\ runsLeft[i] = MaxRuns - 1
        /\ proc[i].tagcalls.write = 2
        /\ proc[i].last.path = F_bar(U_e2e)
        /\ Flags(proc[i].last.cmd) = {"--genre", "--album", "--title", "--tracknum"}
        /\ files[F_foo(U_e2e)].atoms[K_ART] = << "X" >>

\* C12 as stated, with the identifiers "a" and "b" and the files foo-a.m4a
\* and bar-b.m4a: a run that ends with exit status 0 leaves the two files
\* with the atoms of the example.
C12_EndToEnd_AsStated == EndToEnd(U_lit)

(***************************************************************************)
(* Properties of populate, get_entry and len, checked under SpecStore.     *)
(***************************************************************************)
\* the ids that occur in a listing
IdsOf(raw) == {raw[k].id : k \in 1..Len(raw)}

\* the ids an Entry Store may be asked for
AskedIds == {ID_a, ID_b, ID_c}

\* the calls of populate that gave the id, and the places of the id in a
\* listing
CallsWith(calls, id) == {c \in 1..Len(calls) : id \in IdsOf(calls[c])}

PlacesOf(raw, id) == {k \in 1..Len(raw) : raw[k].id = id}

Greatest(S) == CHOOSE n \in S : \A k \in S : k <= n

\* C13 as amended: populate merges.  After any number of calls the Entry
\* Store holds the ids of all the listings given so far; an id is resolved
\* to its last entry in the last listing that has it (so an id of L1 that
\* L2 lacks keeps its L1 entry), and len() is the number of distinct ids of all
\* the listings together.
C13_PopulateMerges ==
    \A i \in Procs :
        LET calls == proc[i].calls
            ents == proc[i].entries
            all == UNION {IdsOf(calls[c]) : c \in 1..Len(calls)}
        IN  /\ len(ents) = Cardinality(all)
            /\ \A id \in AskedIds :
                   IF id \in all
                   THEN LET raw == calls[Greatest(CallsWith(calls, id))]
                            e == get_entry(ents, id)
                        IN  /\ e # None
                            /\ e[1].id = id
                            /\ e[1].pos = Greatest(PlacesOf(raw, id))
                            /\ e[1].title = raw[e[1].pos].title
                   ELSE get_entry(ents, id) = None

\* populate of the one entry b, then of the one entry a: both are resolved
C13_Witness ==
    \E i \in Procs :
        /\ proc[i].calls = << << RawB >>, << RawA1 >> >>
        /\ get_entry(proc[i].entries, ID_b) # None
        /\ get_entry(proc[i].entries, ID_a) # None
        /\ len(proc[i].entries) = 2

\* C13 as stated: after populate(L1) and then populate(L2) the Entry Store
\* holds exactly the ids of L2: an id of L1 that L2 lacks is not resolved,
\* and len() is the number of distinct ids of L2.
C13_PopulateReplaces ==
    \A i \in Procs :
        Len(proc[i].calls) = 2 =>
            LET L1 == proc[i].calls[1]
                L2 == proc[i].calls[2]
            IN  /\ DOMAIN proc[i].entries = IdsOf(L2)
                /\ \A id \in IdsOf(L1) \ IdsOf(L2) :
                       get_entry(proc[i].entries, id) = None
                /\ len(proc[i].entries) = Cardinality(IdsOf(L2))

\* C14: after one populate(L) on a new Playlist, len() is the number of
\* distinct ids of L, and get_entry gives an entry, the one of that id, for
\* exactly the ids that occur in L and None for every other id.
C14_SizeIsDistinctIds ==
    \A i \in Procs :
        Len(proc[i].calls) = 1 =>
            LET L == proc[i].calls[1]
            IN  /\ len(proc[i].entries) = Cardinality(IdsOf(L))
                /\ \A id \in AskedIds :
                       LET e == get_entry(proc[i].entries, id)
                       IN  /\ (e # None) <=> (\E k \in 1..Len(L) : L[k].id = id)
                           /\ e # None => e[1].id = id

\* a listing that repeats an id: one entry is stored, and the id the
\* listing lacks is not found
C14_Witness ==
    \E i \in Procs :
        /\ proc[i].calls = << << RawA1, RawA2 >> >>
        /\ len(proc[i].entries) = 1
        /\ get_entry(proc[i].entries, ID_a) # None
        /\ get_entry(proc[i].entries, ID_b) = None

====
